---- MODULE Spec2Model ----
(***************************************************************************)
(* Fizz: relational schema with row-level-security policies and the React  *)
(* dialogs that read and write it through the hosted backend client.       *)
(*                                                                         *)
(* Tables are sets of rows.  A policy is a predicate over the acting user  *)
(* (auth.uid()) and a row, evaluated on the stored rows; a table with row  *)
(* level security enabled and no policy for a command denies that command. *)
(* Text values (project keys, issue keys, e-mail addresses) are sequences  *)
(* of one-character strings.  Each asynchronous handler is split at the    *)
(* backend calls whose interleaving matters.  A session is one browser tab *)
(* of a signed-in user and runs one handler at a time; handlers of         *)
(* different sessions interleave freely.                                   *)
(***************************************************************************)
EXTENDS Integers, Sequences, FiniteSets, TLC

\* ------------------------------------------------------------------ bounds
MaxRows == 3
MaxEmailFields == 1
MaxTicks == 2
MaxSuffix == 11
MaxPick == 2

\* --------------------------------------------------------------- constants
NULL == "null"
\* accepted_at IS NULL
NullTime == 0 - 1
\* no project selected (useState(defaultProjectId || ''))
NoProject == 0
\* parent_issue_id IS NULL
NoParent == 0

Users == {"u1", "u2"}
Sessions == {"s1", "s2"}
OrgIds == {"o1", "o2"}

app_role == {"owner", "admin", "manager", "contributor", "viewer"}
issue_type == {"task", "bug", "story", "epic", "subtask", "spike"}
issue_priority == {"low", "medium", "high", "critical"}
issue_status == {"backlog", "todo", "in_progress", "in_review", "blocked", "done"}

\* 7 days (7 * 24 * 60 * 60 * 1000 ms), in seconds
InviteTTL == 7 * 24 * 60 * 60
MaxClock == MaxTicks * InviteTTL

\* auth.users.email
UserEmail(u) == IF u = "u1" THEN <<"a", "@">> ELSE <<"B", "@">>

\* ------------------------------------------------------------ text helpers
Upper(c) == CASE c = "a" -> "A" [] c = "b" -> "B" [] c = "w" -> "W" [] OTHER -> c
Lower(c) == CASE c = "A" -> "a" [] c = "B" -> "b" [] c = "W" -> "w" [] OTHER -> c

toUpperCase(str) == [i \in 1..Len(str) |-> Upper(str[i])]
toLowerCase(str) == [i \in 1..Len(str) |-> Lower(str[i])]

includes(str, c) == \E i \in 1..Len(str) : str[i] = c

RECURSIVE trimStart(_)
trimStart(str) == IF str # <<>> /\ Head(str) = " " THEN trimStart(Tail(str)) ELSE str

RECURSIVE trimEnd(_)
trimEnd(str) ==
    IF str # <<>> /\ str[Len(str)] = " " THEN trimEnd(SubSeq(str, 1, Len(str) - 1)) ELSE str

trim(str) == trimEnd(trimStart(str))

Digit(d) == CASE d = 0 -> "0" [] d = 1 -> "1" [] d = 2 -> "2" [] d = 3 -> "3" [] d = 4 -> "4"
              [] d = 5 -> "5" [] d = 6 -> "6" [] d = 7 -> "7" [] d = 8 -> "8" [] d = 9 -> "9"

DigitValue(c) == CASE c = "0" -> 0 [] c = "1" -> 1 [] c = "2" -> 2 [] c = "3" -> 3 [] c = "4" -> 4
                   [] c = "5" -> 5 [] c = "6" -> 6 [] c = "7" -> 7 [] c = "8" -> 8 [] c = "9" -> 9

\* decimal text of a non-negative integer (template literal, || on INTEGER)
RECURSIVE NumberToText(_)
NumberToText(n) == IF n < 10 THEN <<Digit(n)>> ELSE NumberToText(n \div 10) \o <<Digit(n % 10)>>

\* CAST(text AS INTEGER) on a string of decimal digits
RECURSIVE CastInteger(_)
CastInteger(str) ==
    IF Len(str) = 1 THEN DigitValue(str[1])
    ELSE 10 * CastInteger(SubSeq(str, 1, Len(str) - 1)) + DigitValue(str[Len(str)])

\* the texts CAST(... AS INTEGER) accepts
IsInteger(str) ==
    str # <<>> /\ \A i \in 1..Len(str) :
        str[i] \in {"0", "1", "2", "3", "4", "5", "6", "7", "8", "9"}

\* SUBSTRING(str FROM start)
SubstringFrom(str, start) == SubSeq(str, start, Len(str))

SetMax(S) == CHOOSE m \in S : \A x \in S : x <= m

\* ------------------------------------------------------------------- state
VARIABLES
    organizations,  \* rows [id, slug, owner_user_id]
    profiles,       \* user id -> [org_id, role]
    user_roles,     \* rows [user_id, org_id, role]
    invites,        \* rows [id, org_id, email, role, token, expires_at, created_by, accepted_at, accepted_by]
    projects,       \* rows [id, org_id, key]
    issues,         \* rows [id, project_id, issue_key, type, priority, status, reporter_id, assignee_ids,
                    \*       parent_issue_id]
    deployments,    \* rows [id, project_id]
    sprints,        \* rows [id, project_id, type, status, created_by]
    now,            \* the clock, in seconds
    authUser,       \* session -> the signed-in user (useAuth)
    projectDlg,     \* session -> CreateProjectDialog state [orgId]
    dashboard,      \* session -> SmartDashboard state [orgId]
    issueDlg,       \* session -> CreateIssueDialog state
    acceptPage,     \* session -> AcceptInvite state; orgBefore is history: the org_id of the
                    \* user's profile when the running attempt started
    sprintDlg,      \* session -> CreateSprintDialog state [projects, projectId]
    issueSheet,     \* session -> IssueDetailSheet state [issueId, issue]
    outcome,        \* session -> what the last finished dialog handler showed and called
    genResult       \* result of the last rpc call

dbVars == <<organizations, profiles, user_roles, invites, projects, issues, deployments, sprints>>
clientVars == <<projectDlg, dashboard, issueDlg, acceptPage, sprintDlg, issueSheet, outcome>>
vars == <<organizations, profiles, user_roles, invites, projects, issues, deployments, sprints, now,
          authUser, projectDlg, dashboard, issueDlg, acceptPage, sprintDlg, issueSheet, outcome, genResult>>

\* useAuth(): the signed-in user of a session
SessionUser(s) == authUser[s]

\* ------------------------------------------------- security-definer helpers
has_role(_user_id, _org_id, _role) ==
    \E r \in user_roles : r.user_id = _user_id /\ r.org_id = _org_id /\ r.role = _role

\* the function without the org_id condition of its WHERE clause
get_user_role_any(_user_id, _org_id) ==
    LET rows == {r \in user_roles : r.user_id = _user_id}
    IN  IF rows = {} THEN NULL ELSE (CHOOSE r \in rows : TRUE).role

\* SELECT role FROM user_roles WHERE user_id = _user_id AND org_id = _org_id LIMIT 1
get_user_role(_user_id, _org_id) ==
    LET rows == {r \in user_roles : r.user_id = _user_id /\ r.org_id = _org_id}
    IN  IF rows = {} THEN NULL ELSE (CHOOSE r \in rows : TRUE).role

\* SELECT org_id FROM user_roles WHERE user_id = auth.uid()
MemberOrgs(uid) == {r.org_id : r \in {x \in user_roles : x.user_id = uid}}

\* SELECT p.id FROM projects p JOIN user_roles ur ON ur.org_id = p.org_id WHERE ur.user_id = auth.uid()
MemberProjects(uid) ==
    {p.id : p \in {x \in projects : \E ur \in user_roles : ur.org_id = x.org_id /\ ur.user_id = uid}}

\* ---------------------------------------------------------------- policies
\* the policy that lets a user insert a role row for themselves
UserRolesInsertPolicy_self(uid, row) == row.user_id = uid

UserRolesInsertPolicy(uid, row) ==
    has_role(uid, row.org_id, "owner") \/ has_role(uid, row.org_id, "admin")

\* the policy with USING (true)
InvitesSelectPolicy_any(uid, row) == TRUE

InvitesSelectPolicy(uid, row) == row.org_id \in MemberOrgs(uid)

InvitesInsertPolicy(uid, row) ==
    \/ has_role(uid, row.org_id, "owner")
    \/ has_role(uid, row.org_id, "admin")
    \/ has_role(uid, row.org_id, "manager")

\* invites has row level security enabled and no UPDATE policy
InvitesUpdatePolicy(uid, row) == FALSE

DeploymentsSelectPolicy(uid, row) == row.project_id \in MemberProjects(uid)

\* the policy the migration replaced, which reads the role from profiles
ProjectsInsertPolicy_profiles(uid, row) ==
    profiles[uid].org_id = row.org_id /\ profiles[uid].role \in {"owner", "admin", "manager"}

ProjectsInsertPolicy(uid, row) ==
    \/ has_role(uid, row.org_id, "owner")
    \/ has_role(uid, row.org_id, "admin")
    \/ has_role(uid, row.org_id, "manager")

ProjectsSelectPolicy(uid, row) == row.org_id \in MemberOrgs(uid)

IssuesInsertPolicy(uid, row) ==
    row.reporter_id = uid /\ row.project_id \in MemberProjects(uid)

IssuesSelectPolicy(uid, row) == row.project_id \in MemberProjects(uid)

OrganizationsInsertPolicy(uid, row) == uid = row.owner_user_id

\* "Contributors and above can create sprints"
SprintsInsertPolicy(uid, row) == row.created_by = uid

\* the policy that lets every member of the project's organization update
IssuesUpdatePolicy_members(uid, row) == row.project_id \in MemberProjects(uid)

\* "Contributors can update issues"
IssuesUpdatePolicy(uid, row) == row.reporter_id = uid \/ uid \in row.assignee_ids

ProfilesUpdatePolicy(uid, id) == id = uid

\* -------------------------------------------------------- table constraints
\* the table without UNIQUE(user_id, org_id)
UserRolesUnique_off(row) == TRUE

\* UNIQUE(user_id, org_id)
UserRolesUnique(row) ==
    ~ \E r \in user_roles : r.user_id = row.user_id /\ r.org_id = row.org_id

\* the table without UNIQUE(org_id, key)
ProjectsUnique_off(row) == TRUE

\* UNIQUE(org_id, key)
ProjectsUnique(row) ==
    ~ \E p \in projects : p.org_id = row.org_id /\ p.key = row.key

\* the table without UNIQUE(project_id, issue_key)
IssuesUnique_off(row) == TRUE

\* UNIQUE(project_id, issue_key)
IssuesUnique(row) ==
    ~ \E i \in issues : i.project_id = row.project_id /\ i.issue_key = row.issue_key

\* type issue_type, priority issue_priority, status issue_status
IssuesEnums(row) ==
    row.type \in issue_type /\ row.priority \in issue_priority /\ row.status \in issue_status

\* slug TEXT UNIQUE
OrganizationsUnique(row) == ~ \E o \in organizations : o.slug = row.slug

\* token TEXT NOT NULL UNIQUE
InvitesUnique(row) == ~ \E i \in invites : i.token = row.token

\* ------------------------------------------------------- what a user can read
SelectProjects(uid) == {p \in projects : ProjectsSelectPolicy(uid, p)}
SelectIssues(uid) == {i \in issues : IssuesSelectPolicy(uid, i)}
SelectInvites(uid) == {i \in invites : InvitesSelectPolicy(uid, i)}
SelectDeployments(uid) == {d \in deployments : DeploymentsSelectPolicy(uid, d)}

\* rows inserted since the initial state
RowCount ==
    Cardinality(organizations) - 1 + Cardinality(invites) + Cardinality(projects)
        + Cardinality(issues) + Cardinality(deployments) + Cardinality(sprints)

\* gen_random_uuid(): an id no row of the table has
NextId(rows) == Cardinality(rows) + 1

\* ------------------------------------------------------ generate_issue_key
\* the variant that numbers by COUNT(*) instead of MAX(suffix)
generate_issue_key_count(p_project_id) ==
    IF ~ \E p \in projects : p.id = p_project_id
    THEN [error |-> "Project not found", value |-> <<>>]
    ELSE LET v_project_key == (CHOOSE p \in projects : p.id = p_project_id).key
             v_next_number == Cardinality({x \in issues : x.project_id = p_project_id}) + 1
         IN  [error |-> NULL, value |-> v_project_key \o <<"-">> \o NumberToText(v_next_number)]

generate_issue_key(p_project_id) ==
    IF ~ \E p \in projects : p.id = p_project_id
    THEN [error |-> "Project not found", value |-> <<>>]
    ELSE LET v_project_key == (CHOOSE p \in projects : p.id = p_project_id).key
             texts == {SubstringFrom(i.issue_key, Len(v_project_key) + 2) :
                          i \in {x \in issues : x.project_id = p_project_id}}
             suffixes == {CastInteger(t) : t \in texts}
             v_next_number == (IF suffixes = {} THEN 0 ELSE SetMax(suffixes)) + 1
         IN  IF \E t \in texts : ~ IsInteger(t)
             THEN [error |-> "invalid input syntax for type integer", value |-> <<>>]
             ELSE [error |-> NULL, value |-> v_project_key \o <<"-">> \o NumberToText(v_next_number)]

\* ------------------------------------------------------------------ inputs
SlugInputs == {"acme", "beta"}
KeyInputs == {<<"w">>, <<"W">>, <<"a", "b">>}
TypeInputs == {"task"}
PriorityInputs == {"medium"}
EmailInputs == {<<" ", "b", "@">>, <<"B", "@">>, <<"b">>}
InviteRoleInputs == {"contributor"}
TickInputs == {InviteTTL}

\* ------------------------------------------------------------ initial state
\* Step 7 of the migration: one user_roles row per profile that has an organization
MigrateProfiles(pr) ==
    {[user_id |-> u, org_id |-> pr[u].org_id, role |-> pr[u].role] :
        u \in {x \in Users : pr[x].org_id # NULL}}

\* u1 owns organization o1; u2 is a member of o1 in some role, or has no organization
InitProfiles ==
    {[u \in Users |-> IF u = "u1" THEN [org_id |-> "o1", role |-> "owner"] ELSE p2] :
        p2 \in {[org_id |-> "o1", role |-> r] : r \in app_role \ {"owner"}}
               \cup {[org_id |-> NULL, role |-> "contributor"]}}

NoOutcome == [toast |-> "none", closed |-> FALSE, onSuccess |-> FALSE]
NoInvite == [id |-> 0]
NoResult == [arg |-> 0, error |-> NULL, value |-> <<>>]
IdleIssueDlg == [projects |-> {}, projectId |-> NoProject, pc |-> "idle", issueKey |-> <<>>]
IdleAcceptPage == [pc |-> "idle", invite |-> NoInvite, orgBefore |-> NULL, status |-> "loading", message |-> ""]
IdleSprintDlg == [projects |-> {}, projectId |-> NoProject]
NoIssue == [id |-> 0]
ClosedSheet == [issueId |-> 0, issue |-> NoIssue]

InitClient ==
    /\ projectDlg = [s \in Sessions |-> [orgId |-> NULL]]
    /\ dashboard = [s \in Sessions |-> [orgId |-> NULL]]
    /\ issueDlg = [s \in Sessions |-> IdleIssueDlg]
    /\ acceptPage = [s \in Sessions |-> IdleAcceptPage]
    /\ sprintDlg = [s \in Sessions |-> IdleSprintDlg]
    /\ issueSheet = [s \in Sessions |-> ClosedSheet]
    /\ outcome = [s \in Sessions |-> NoOutcome]

Init ==
    /\ organizations = {[id |-> "o1", slug |-> "acme", owner_user_id |-> "u1"]}
    /\ profiles \in InitProfiles
    /\ user_roles = MigrateProfiles(profiles)
    /\ invites = {}
    /\ projects = {}
    /\ issues = {}
    /\ deployments = {}
    /\ sprints = {}
    /\ now = 0
    /\ authUser = [s \in Sessions |-> IF s = "s1" THEN "u1" ELSE "u2"]
    /\ InitClient
    /\ genResult = NoResult

\* leaving the invitation route unmounts AcceptInvite
LeaveAcceptPage(s) == acceptPage' = [acceptPage EXCEPT ![s] = IdleAcceptPage]

\* opening the invitation route unmounts the dashboard and its dialogs
OpenAcceptPage(s) ==
    /\ projectDlg' = [projectDlg EXCEPT ![s] = [orgId |-> NULL]]
    /\ dashboard' = [dashboard EXCEPT ![s] = [orgId |-> NULL]]
    /\ issueDlg' = [issueDlg EXCEPT ![s] = IdleIssueDlg]
    /\ outcome' = [outcome EXCEPT ![s] = NoOutcome]

\* a session runs one handler at a time
Idle(s) == issueDlg[s].pc = "idle" /\ acceptPage[s].pc = "idle"

\* a handler whose catch block also closes the dialog and calls onSuccess
Shown_closing(toast) == [toast |-> toast, closed |-> TRUE, onSuccess |-> TRUE]

\* the success path shows a toast, closes the dialog (onOpenChange(false)) and calls onSuccess;
\* the catch block only shows a toast
Shown(toast) == [toast |-> toast, closed |-> toast = "Success", onSuccess |-> toast = "Success"]

\* "Users can view profiles in their organization": the row's org_id is the caller's org_id
ProfilesSelectPolicy(uid, id) ==
    profiles[id].org_id # NULL /\ profiles[id].org_id = profiles[uid].org_id

\* ---------------------------------------------------------- CreateOrgDialog
CreateOrgSubmit(s, slug) ==
    LET user == SessionUser(s)
        free == OrgIds \ {o.id : o \in organizations}
    IN  /\ Idle(s)
        /\ free # {}
        /\ slug \notin {o.slug : o \in organizations} => RowCount < MaxRows
        /\ LET row == [id |-> CHOOSE o \in free : TRUE, slug |-> slug, owner_user_id |-> user]
           IN  IF ~ OrganizationsInsertPolicy(user, row)
               THEN /\ outcome' = [outcome EXCEPT ![s] = Shown("Error")]
                    /\ UNCHANGED <<organizations, profiles>>
               ELSE IF ~ OrganizationsUnique(row)
               THEN /\ outcome' = [outcome EXCEPT ![s] = Shown("Error")]
                    /\ UNCHANGED <<organizations, profiles>>
               ELSE /\ organizations' = organizations \cup {row}
                    /\ IF ProfilesUpdatePolicy(user, user)
                       THEN /\ profiles' = [profiles EXCEPT ![user] = [org_id |-> row.id, role |-> "owner"]]
                            /\ outcome' = [outcome EXCEPT ![s] = Shown("Success")]
                       ELSE /\ profiles' = profiles
                            /\ outcome' = [outcome EXCEPT ![s] = Shown("Error")]
        /\ LeaveAcceptPage(s)
        /\ UNCHANGED <<user_roles, invites, projects, issues, deployments, now, authUser,
                       projectDlg, dashboard, issueDlg, genResult,
                       sprints, sprintDlg, issueSheet>>

\* ------------------------------------------------------ CreateProjectDialog
\* the effects that run when the dashboard mounts: CreateProjectDialog.loadUserOrg
\* keeps its orgId when the profile cannot be read, SmartDashboard.loadDashboard resets it
loadUserOrg(s) ==
    LET user == SessionUser(s)
        readable == ProfilesSelectPolicy(user, user)
    IN  /\ Idle(s)
        /\ projectDlg' = [projectDlg EXCEPT ![s].orgId =
                             IF readable THEN profiles[user].org_id ELSE projectDlg[s].orgId]
        /\ dashboard' = [dashboard EXCEPT ![s].orgId =
                            IF readable THEN profiles[user].org_id ELSE NULL]
        /\ LeaveAcceptPage(s)
        /\ UNCHANGED <<dbVars, now, authUser, issueDlg, outcome, genResult, sprintDlg, issueSheet>>

CreateProjectSubmit(s, key) ==
    LET user == SessionUser(s)
        orgId == projectDlg[s].orgId
        row == [id |-> NextId(projects), org_id |-> orgId, key |-> toUpperCase(key)]
        result == IF orgId = NULL THEN "no_org"
                  ELSE IF ~ ProjectsInsertPolicy(user, row) THEN "rls"
                  ELSE IF ~ ProjectsUnique(row) THEN "unique"
                  ELSE "ok"
    IN  /\ Idle(s)
        /\ result = "ok" => RowCount < MaxRows
        /\ IF result = "ok"
           THEN /\ projects' = projects \cup {row}
                /\ outcome' = [outcome EXCEPT ![s] = Shown("Success")]
           ELSE /\ projects' = projects
                /\ outcome' = [outcome EXCEPT ![s] = Shown("Error")]
        /\ LeaveAcceptPage(s)
        /\ UNCHANGED <<organizations, profiles, user_roles, invites, issues, deployments, now, authUser,
                       projectDlg, dashboard, issueDlg, genResult,
                       sprints, sprintDlg, issueSheet>>

\* -------------------------------------------------------- CreateIssueDialog
\* the effect that runs when the dialog opens
loadProjects(s) ==
    LET user == SessionUser(s)
        data == {[id |-> p.id, key |-> p.key] : p \in SelectProjects(user)}
    IN  /\ Idle(s)
        /\ \E first \in (IF data = {} THEN {NoProject} ELSE {p.id : p \in data}) :
              issueDlg' = [issueDlg EXCEPT ![s].projects = data,
                                           ![s].projectId =
                                               IF data # {} /\ issueDlg[s].projectId = NoProject
                                               THEN first ELSE issueDlg[s].projectId]
        /\ LeaveAcceptPage(s)
        /\ UNCHANGED <<dbVars, now, authUser, projectDlg, dashboard, outcome, genResult, sprintDlg, issueSheet>>

setProjectId(s, p) ==
    /\ Idle(s)
    /\ p \in {x.id : x \in issueDlg[s].projects}
    /\ p # issueDlg[s].projectId
    /\ issueDlg' = [issueDlg EXCEPT ![s].projectId = p]
    /\ LeaveAcceptPage(s)
    /\ UNCHANGED <<dbVars, now, authUser, projectDlg, dashboard, outcome, genResult, sprintDlg, issueSheet>>

\* the count of the issues of a project, as the caller can read them
CountIssues(uid, projectId) == Cardinality({i \in SelectIssues(uid) : i.project_id = projectId})

\* `${project.key}-${count || 0}`
NextIssueKey_zero(project, count) == project.key \o <<"-">> \o NumberToText(count)

\* `${project.key}-${(count || 0) + 1}`
NextIssueKey(project, count) == project.key \o <<"-">> \o NumberToText(count + 1)

\* handleSubmit up to the await of generateIssueKey
generateIssueKey(s) ==
    LET user == SessionUser(s)
        projectId == issueDlg[s].projectId
        found == {p \in issueDlg[s].projects : p.id = projectId}
    IN  /\ Idle(s)
        /\ projectId # NoProject
        /\ IF found = {}
           THEN /\ outcome' = [outcome EXCEPT ![s] =
                                  Shown("Error")]
                /\ issueDlg' = issueDlg
           ELSE LET project == CHOOSE p \in found : TRUE
                    count == CountIssues(user, projectId)
                IN  /\ issueDlg' = [issueDlg EXCEPT
                                       ![s].pc = "insert",
                                       ![s].issueKey = NextIssueKey(project, count)]
                    /\ outcome' = outcome
        /\ LeaveAcceptPage(s)
        /\ UNCHANGED <<dbVars, now, authUser, projectDlg, dashboard, genResult, sprintDlg, issueSheet>>

\* handleSubmit from the insert to the end
insertIssue(s, type, priority) ==
    LET user == SessionUser(s)
        row == [id |-> NextId(issues), project_id |-> issueDlg[s].projectId,
                issue_key |-> issueDlg[s].issueKey, type |-> type, priority |-> priority,
                status |-> "backlog", reporter_id |-> user, assignee_ids |-> {},
                parent_issue_id |-> NoParent]
        result == IF ~ IssuesEnums(row) THEN "enum"
                  ELSE IF ~ IssuesInsertPolicy(user, row) THEN "rls"
                  ELSE IF ~ IssuesUnique(row) THEN "unique"
                  ELSE "ok"
    IN  /\ issueDlg[s].pc = "insert"
        /\ result = "ok" => RowCount < MaxRows
        /\ IF result = "ok"
           THEN /\ issues' = issues \cup {row}
                /\ outcome' = [outcome EXCEPT ![s] = Shown("Success")]
           ELSE /\ issues' = issues
                /\ outcome' = [outcome EXCEPT ![s] = Shown("Error")]
        /\ issueDlg' = [issueDlg EXCEPT ![s].pc = "idle", ![s].issueKey = <<>>]
        /\ UNCHANGED <<organizations, profiles, user_roles, invites, projects, deployments, now, authUser,
                       projectDlg, dashboard, acceptPage, genResult,
                       sprints, sprintDlg, issueSheet>>

\* ------------------------------------------------------- CreateInviteDialog
EmailLists == UNION {[1..n -> EmailInputs] : n \in 1..MaxEmailFields}

CreateInviteSubmit(s, emails, role) ==
    LET user == SessionUser(s)
        orgId == dashboard[s].orgId
        validEmails == SelectSeq(emails, LAMBDA e : trim(e) # <<>> /\ includes(e, "@"))
        base == Cardinality(invites)
        rows == {[id |-> base + k, org_id |-> orgId, email |-> toLowerCase(trim(validEmails[k])),
                  role |-> role, token |-> base + k, expires_at |-> now + InviteTTL,
                  created_by |-> user, accepted_at |-> NullTime, accepted_by |-> NULL] :
                    k \in 1..Len(validEmails)}
        result == IF Len(validEmails) = 0 THEN "Please enter at least one valid email"
                  ELSE IF \E r \in rows : ~ InvitesInsertPolicy(user, r) THEN "rls"
                  ELSE IF \E r \in rows : ~ InvitesUnique(r) THEN "unique"
                  ELSE "ok"
    IN  /\ Idle(s)
        /\ orgId # NULL
        /\ result = "ok" => RowCount + Len(validEmails) <= MaxRows
        /\ IF result = "ok"
           THEN /\ invites' = invites \cup rows
                /\ outcome' = [outcome EXCEPT ![s] = Shown("Success")]
           ELSE /\ invites' = invites
                /\ outcome' = [outcome EXCEPT ![s] = Shown("Error")]
        /\ LeaveAcceptPage(s)
        /\ UNCHANGED <<organizations, profiles, user_roles, projects, issues, deployments, now, authUser,
                       projectDlg, dashboard, issueDlg, genResult,
                       sprints, sprintDlg, issueSheet>>

\* ------------------------------------------------------------- AcceptInvite
\* the page without the check of the email
EmailMatches_any(invite, user) == TRUE

\* invite.email.toLowerCase() !== user.email?.toLowerCase()
EmailMatches(invite, user) == toLowerCase(invite.email) = toLowerCase(UserEmail(user))

\* acceptInvite, for a link that carries a token, from the start to the end of the checks
\* on the fetched invite
acceptInvite(s, token) ==
    LET user == SessionUser(s)
        found == {i \in SelectInvites(user) : i.token = token /\ i.accepted_at = NullTime}
    IN  /\ Idle(s)
        /\ IF Cardinality(found) # 1
           THEN acceptPage' = [acceptPage EXCEPT ![s] =
                   [pc |-> "idle", invite |-> NoInvite, orgBefore |-> NULL, status |-> "error",
                    message |-> "Invitation not found or already accepted"]]
           ELSE LET invite == CHOOSE i \in found : TRUE
                IN  IF invite.expires_at < now
                    THEN acceptPage' = [acceptPage EXCEPT ![s] =
                            [pc |-> "idle", invite |-> NoInvite, orgBefore |-> NULL, status |-> "expired",
                             message |-> "This invitation has expired"]]
                    ELSE IF ~ EmailMatches(invite, user)
                    THEN acceptPage' = [acceptPage EXCEPT ![s] =
                            [pc |-> "idle", invite |-> NoInvite, orgBefore |-> NULL, status |-> "error",
                             message |-> "This invitation was sent to a different email address"]]
                    ELSE acceptPage' = [acceptPage EXCEPT ![s] =
                            [pc |-> "profile", invite |-> invite, orgBefore |-> profiles[user].org_id,
                             status |-> "loading", message |-> ""]]
        /\ OpenAcceptPage(s)
        /\ UNCHANGED <<dbVars, now, authUser, genResult, sprintDlg, issueSheet>>

\* acceptInvite: update of the user's profile
acceptInviteProfile(s) ==
    LET user == SessionUser(s)
        invite == acceptPage[s].invite
    IN  /\ acceptPage[s].pc = "profile"
        /\ profiles' = IF ProfilesUpdatePolicy(user, user)
                       THEN [profiles EXCEPT ![user].org_id = invite.org_id]
                       ELSE profiles
        /\ acceptPage' = [acceptPage EXCEPT ![s].pc = "role"]
        /\ UNCHANGED <<organizations, user_roles, invites, projects, issues, deployments, now, authUser,
                       projectDlg, dashboard, issueDlg, outcome, genResult,
                       sprints, sprintDlg, issueSheet>>

\* acceptInvite: insert of the user_roles row, then marking the invite accepted
acceptInviteRole(s) ==
    LET user == SessionUser(s)
        invite == acceptPage[s].invite
        row == [user_id |-> user, org_id |-> invite.org_id, role |-> invite.role]
        roleError == IF ~ UserRolesInsertPolicy(user, row) THEN "rls"
                     ELSE IF ~ UserRolesUnique(row) THEN "unique"
                     ELSE NULL
    IN  /\ acceptPage[s].pc = "role"
        /\ IF roleError # NULL
           THEN /\ acceptPage' = [acceptPage EXCEPT ![s] =
                       [pc |-> "idle", invite |-> NoInvite, orgBefore |-> NULL, status |-> "error", message |-> roleError]]
                /\ UNCHANGED <<user_roles, invites>>
           ELSE /\ user_roles' = user_roles \cup {row}
                /\ invites' = {IF i.id = invite.id /\ InvitesUpdatePolicy(user, i)
                               THEN [i EXCEPT !.accepted_at = now, !.accepted_by = user]
                               ELSE i : i \in invites}
                /\ acceptPage' = [acceptPage EXCEPT ![s] =
                       [pc |-> "idle", invite |-> NoInvite, orgBefore |-> NULL, status |-> "success",
                        message |-> "You've successfully joined"]]
        /\ UNCHANGED <<organizations, profiles, projects, issues, deployments, now, authUser,
                       projectDlg, dashboard, issueDlg, outcome, genResult,
                       sprints, sprintDlg, issueSheet>>

\* ------------------------------------------------------ CreateSprintDialog
SprintTypeInputs == {"sprint"}

\* the effect that runs when the dialog opens: the projects of the organization of the
\* user's profile, as far as the user can read them
loadSprintProjects(s) ==
    LET user == SessionUser(s)
        org_id == IF ProfilesSelectPolicy(user, user) THEN profiles[user].org_id ELSE NULL
        data == {[id |-> p.id, key |-> p.key] : p \in {x \in SelectProjects(user) : x.org_id = org_id}}
    IN  /\ Idle(s)
        /\ org_id # NULL
        /\ \E first \in (IF data = {} THEN {NoProject} ELSE {p.id : p \in data}) :
              sprintDlg' = [sprintDlg EXCEPT ![s] =
                               [projects |-> data,
                                projectId |-> IF data # {} /\ sprintDlg[s].projectId = NoProject
                                              THEN first ELSE sprintDlg[s].projectId]]
        /\ UNCHANGED <<dbVars, now, authUser, projectDlg, dashboard, issueDlg, acceptPage, issueSheet,
                       outcome, genResult>>

CreateSprintSubmit(s, type) ==
    LET user == SessionUser(s)
        row == [id |-> NextId(sprints), project_id |-> sprintDlg[s].projectId, type |-> type,
                status |-> "planned", created_by |-> user]
        result == IF ~ SprintsInsertPolicy(user, row) THEN "rls"
                  ELSE IF ~ \E p \in projects : p.id = row.project_id THEN "foreign key"
                  ELSE "ok"
    IN  /\ Idle(s)
        /\ sprintDlg[s].projectId # NoProject
        /\ result = "ok" => RowCount < MaxRows
        /\ IF result = "ok"
           THEN /\ sprints' = sprints \cup {row}
                /\ outcome' = [outcome EXCEPT ![s] = Shown("Success")]
           ELSE /\ sprints' = sprints
                /\ outcome' = [outcome EXCEPT ![s] = Shown("Error")]
        /\ UNCHANGED <<organizations, profiles, user_roles, invites, projects, issues, deployments, now,
                       authUser, projectDlg, dashboard, issueDlg, acceptPage, sprintDlg, issueSheet,
                       genResult>>

\* --------------------------------------------------------- IssueDetailSheet
FieldInputs == {"status", "priority"}
ValueInputs == {"done", "urgent"}

\* Board.handleIssueClick on a card of the loaded board, then the effect that loads the issue
loadIssue(s, issueId) ==
    LET user == SessionUser(s)
        found == {i \in SelectIssues(user) : i.id = issueId}
    IN  /\ Idle(s)
        /\ issueId \in {i.id : i \in SelectIssues(user)}
        /\ IF Cardinality(found) # 1
           THEN /\ issueSheet' = [issueSheet EXCEPT ![s] = [issueId |-> issueId, issue |-> NoIssue]]
                /\ outcome' = [outcome EXCEPT ![s] = Shown("Error")]
           ELSE /\ issueSheet' = [issueSheet EXCEPT ![s] =
                                     [issueId |-> issueId, issue |-> CHOOSE i \in found : TRUE]]
                /\ outcome' = outcome
        /\ UNCHANGED <<dbVars, now, authUser, projectDlg, dashboard, issueDlg, acceptPage, sprintDlg,
                       genResult>>

\* the columns declared TEXT instead of an enum type
ColumnAccepts_text(field, value) == field \in {"status", "priority", "type"}

\* the values a column of issues accepts
ColumnAccepts(field, value) ==
    CASE field = "status" -> value \in issue_status
      [] field = "priority" -> value \in issue_priority
      [] field = "type" -> value \in issue_type
      [] OTHER -> FALSE

\* update({ [field]: value }).eq('id', issueId): the rows the caller may read and update
UpdatableIssues(uid, issueId) ==
    {i \in SelectIssues(uid) : i.id = issueId /\ IssuesUpdatePolicy(uid, i)}

\* the toast and the callback of the success path of updateIssueField (onUpdate)
Updated == [toast |-> "Updated", closed |-> FALSE, onSuccess |-> TRUE]

updateIssueField(s, field, value) ==
    LET user == SessionUser(s)
        issueId == issueSheet[s].issueId
        rows == UpdatableIssues(user, issueId)
        written == {[i EXCEPT ![field] = value] : i \in rows}
    IN  /\ Idle(s)
        /\ issueId # 0
        /\ issueSheet[s].issue # NoIssue
        /\ IF ~ ColumnAccepts(field, value)
           THEN /\ issues' = issues
                /\ issueSheet' = issueSheet
                /\ outcome' = [outcome EXCEPT ![s] = Shown("Error")]
           ELSE /\ issues' = (issues \ rows) \cup written
                /\ issueSheet' = [issueSheet EXCEPT ![s].issue = [@ EXCEPT ![field] = value]]
                /\ outcome' = [outcome EXCEPT ![s] = Updated]
        /\ UNCHANGED <<organizations, profiles, user_roles, invites, projects, deployments, sprints, now,
                       authUser, projectDlg, dashboard, issueDlg, acceptPage, sprintDlg, genResult>>

\* ------------------------------------------------------------- environment
\* time is measured from the creation of the first invite: before that nothing reads the clock
Tick(d) ==
    /\ invites # {}
    /\ now + d <= MaxClock
    /\ now' = now + d
    /\ UNCHANGED <<dbVars, authUser, clientVars, genResult>>

\* the deployment integration records a preview for a project
recordDeployment(p) ==
    /\ RowCount < MaxRows
    /\ p \in {x.id : x \in projects}
    /\ deployments' = deployments \cup {[id |-> NextId(deployments), project_id |-> p]}
    /\ UNCHANGED <<organizations, profiles, user_roles, invites, projects, issues, now, authUser,
                   clientVars, genResult,
                   sprints>>

\* ------------------------------------------------------------ specification
Next ==
    \/ \E s \in Sessions, slug \in SlugInputs : CreateOrgSubmit(s, slug)
    \/ \E s \in Sessions : loadUserOrg(s)
    \/ \E s \in Sessions, key \in KeyInputs : CreateProjectSubmit(s, key)
    \/ \E s \in Sessions : loadProjects(s)
    \/ \E s \in Sessions, p \in 1..MaxRows : setProjectId(s, p)
    \/ \E s \in Sessions : generateIssueKey(s)
    \/ \E s \in Sessions, type \in TypeInputs, priority \in PriorityInputs : insertIssue(s, type, priority)
    \/ \E s \in Sessions, emails \in EmailLists, role \in InviteRoleInputs :
          CreateInviteSubmit(s, emails, role)
    \/ \E s \in Sessions, token \in 1..(Cardinality(invites) + 1) : acceptInvite(s, token)
    \/ \E s \in Sessions : acceptInviteProfile(s)
    \/ \E s \in Sessions : acceptInviteRole(s)
    \/ \E d \in TickInputs : Tick(d)
    \/ \E p \in 1..MaxRows : recordDeployment(p)

Spec == Init /\ [][Next]_vars

\* ------------------------------- generate_issue_key over drawn table contents
GenKeys == {<<"W">>, <<"A", "B">>}

GenIssue(id, project_id, issue_key) ==
    [id |-> id, project_id |-> project_id, issue_key |-> issue_key, type |-> "task",
     priority |-> "medium", status |-> "backlog", reporter_id |-> "u1", assignee_ids |-> {},
     parent_issue_id |-> NoParent]

\* two projects of o1; the first holds up to MaxPick issues numbered within 1..MaxSuffix,
\* the second none or one
InitGen ==
    /\ organizations = {[id |-> "o1", slug |-> "acme", owner_user_id |-> "u1"]}
    /\ profiles = [u \in Users |-> [org_id |-> "o1", role |-> IF u = "u1" THEN "owner" ELSE "contributor"]]
    /\ user_roles = MigrateProfiles(profiles)
    /\ invites = {}
    /\ deployments = {}
    /\ sprints = {}
    /\ now = 0
    /\ authUser = [s \in Sessions |-> IF s = "s1" THEN "u1" ELSE "u2"]
    /\ InitClient
    /\ genResult = NoResult
    /\ \E k1 \in GenKeys : \E k2 \in GenKeys \ {k1} :
       \E nums1 \in {S \in SUBSET (1..MaxSuffix) : Cardinality(S) <= MaxPick} :
       \E nums2 \in {{}, {MaxSuffix + 1}} :
          /\ projects = {[id |-> 1, org_id |-> "o1", key |-> k1],
                         [id |-> 2, org_id |-> "o1", key |-> k2]}
          /\ issues = {GenIssue(n, 1, k1 \o <<"-">> \o NumberToText(n)) : n \in nums1}
                        \cup {GenIssue(MaxSuffix + n, 2, k2 \o <<"-">> \o NumberToText(n)) : n \in nums2}

\* supabase.rpc('generate_issue_key', { p_project_id })
callGenerateIssueKey(p) ==
    /\ genResult' = LET r == generate_issue_key(p)
                    IN  [arg |-> p, error |-> r.error, value |-> r.value]
    /\ UNCHANGED <<dbVars, now, authUser, clientVars>>

NextGen == \E p \in 1..3 : callGenerateIssueKey(p)

SpecGen == InitGen /\ [][NextGen]_vars

\* ------------------------------ the board of an organization with a project
\* u1 has created the project AB of o1
InitWork ==
    /\ organizations = {[id |-> "o1", slug |-> "acme", owner_user_id |-> "u1"]}
    /\ profiles \in InitProfiles
    /\ user_roles = MigrateProfiles(profiles)
    /\ invites = {}
    /\ projects = {[id |-> 1, org_id |-> "o1", key |-> <<"A", "B">>]}
    /\ issues = {}
    /\ deployments = {}
    /\ sprints = {}
    /\ now = 0
    /\ authUser = [s \in Sessions |-> IF s = "s1" THEN "u1" ELSE "u2"]
    /\ InitClient
    /\ genResult = NoResult

NextWork ==
    \/ \E s \in Sessions : loadProjects(s)
    \/ \E s \in Sessions : generateIssueKey(s)
    \/ \E s \in Sessions, type \in TypeInputs, priority \in PriorityInputs : insertIssue(s, type, priority)
    \/ \E s \in Sessions : loadSprintProjects(s)
    \/ \E s \in Sessions, type \in SprintTypeInputs : CreateSprintSubmit(s, type)
    \/ \E s \in Sessions, issueId \in 1..MaxRows : loadIssue(s, issueId)
    \/ \E s \in Sessions, field \in FieldInputs, value \in ValueInputs : updateIssueField(s, field, value)

SpecWork == InitWork /\ [][NextWork]_vars

\* ------------------------------------------------ has_role, get_user_role
NoRoleResult == [fn |-> "none", args |-> <<>>, value |-> NULL]

\* two organizations; every user holds no role or one role in each of them
\* (UNIQUE(user_id, org_id))
InitRoles ==
    /\ organizations = {[id |-> "o1", slug |-> "acme", owner_user_id |-> "u1"],
                        [id |-> "o2", slug |-> "beta", owner_user_id |-> "u2"]}
    /\ profiles = [u \in Users |-> [org_id |-> NULL, role |-> "contributor"]]
    /\ \E f \in [Users \X OrgIds -> app_role \cup {NULL}] :
          user_roles = {[user_id |-> p[1], org_id |-> p[2], role |-> f[p]] :
                           p \in {q \in Users \X OrgIds : f[q] # NULL}}
    /\ invites = {}
    /\ projects = {}
    /\ issues = {}
    /\ deployments = {}
    /\ sprints = {}
    /\ now = 0
    /\ authUser = [s \in Sessions |-> IF s = "s1" THEN "u1" ELSE "u2"]
    /\ InitClient
    /\ genResult = NoRoleResult

\* supabase.rpc('has_role', { _user_id, _org_id, _role })
callHasRole(_user_id, _org_id, _role) ==
    /\ genResult' = [fn |-> "has_role", args |-> <<_user_id, _org_id, _role>>,
                     value |-> has_role(_user_id, _org_id, _role)]
    /\ UNCHANGED <<dbVars, now, authUser, clientVars>>

\* supabase.rpc('get_user_role', { _user_id, _org_id })
callGetUserRole(_user_id, _org_id) ==
    /\ genResult' = [fn |-> "get_user_role", args |-> <<_user_id, _org_id>>,
                     value |-> get_user_role(_user_id, _org_id)]
    /\ UNCHANGED <<dbVars, now, authUser, clientVars>>

NextRoles ==
    \/ \E u \in Users, o \in OrgIds, r \in app_role : callHasRole(u, o, r)
    \/ \E u \in Users, o \in OrgIds : callGetUserRole(u, o)

SpecRoles == InitRoles /\ [][NextRoles]_vars

\* --------------------------------------- the issues table, written directly
\* supabase.from('issues').insert(row) with a parent_issue_id: the insert of
\* CreateIssueDialog with the one column more that issues.Insert admits. No dialog
\* of the application sets the column.
issues_insert(s, parent_issue_id) ==
    LET user == SessionUser(s)
        project == CHOOSE p \in projects : TRUE
        row == [GenIssue(NextId(issues), project.id, NextIssueKey(project, Cardinality(issues)))
                   EXCEPT !.reporter_id = user, !.parent_issue_id = parent_issue_id]
        result == IF ~ IssuesEnums(row) THEN "enum"
                  ELSE IF ~ IssuesInsertPolicy(user, row) THEN "rls"
                  ELSE IF ~ IssuesUnique(row) THEN "unique"
                  ELSE IF parent_issue_id # NoParent /\ ~ \E i \in issues : i.id = parent_issue_id
                       THEN "foreign key"
                  ELSE "ok"
    IN  /\ result = "ok"
        /\ Cardinality(issues) <= MaxRows
        /\ issues' = issues \cup {row}
        /\ UNCHANGED <<organizations, profiles, user_roles, invites, projects, deployments, sprints,
                       now, authUser, clientVars, genResult>>

\* u1 has created the project AB of o1 and its first issue
InitDb ==
    /\ organizations = {[id |-> "o1", slug |-> "acme", owner_user_id |-> "u1"]}
    /\ profiles \in InitProfiles
    /\ user_roles = MigrateProfiles(profiles)
    /\ invites = {}
    /\ projects = {[id |-> 1, org_id |-> "o1", key |-> <<"A", "B">>]}
    /\ issues = {GenIssue(1, 1, <<"A", "B", "-", "1">>)}
    /\ deployments = {}
    /\ sprints = {}
    /\ now = 0
    /\ authUser = [s \in Sessions |-> IF s = "s1" THEN "u1" ELSE "u2"]
    /\ InitClient
    /\ genResult = NoResult

NextDb == \E s \in Sessions, parent_issue_id \in 0..MaxRows : issues_insert(s, parent_issue_id)

SpecDb == InitDb /\ [][NextDb]_vars

\* ================================================================== claims
IssuesOf(p) == {i \in issues : i.project_id = p}
KeysOf(p) == {i.issue_key : i \in IssuesOf(p)}
Others(s) == Sessions \ {s}
RolesOf(u, o) == {r.role : r \in {x \in user_roles : x.user_id = u /\ x.org_id = o}}

\* the number written after the last hyphen of a key
LastHyphen(str) == CHOOSE i \in 1..Len(str) : str[i] = "-" /\ \A j \in (i + 1)..Len(str) : str[j] # "-"
RECURSIVE Pow10(_)
Pow10(n) == IF n = 0 THEN 1 ELSE 10 * Pow10(n - 1)
RECURSIVE SumTo(_, _)
SumTo(f, n) == IF n = 0 THEN 0 ELSE f[n] + SumTo(f, n - 1)
NumericSuffix(str) ==
    LET h == LastHyphen(str)
        n == Len(str) - h
    IN  SumTo([k \in 1..n |-> DigitValue(str[h + k]) * Pow10(n - k)], n)
KeyPrefix(str) == SubSeq(str, 1, LastHyphen(str) - 1)

\* C1: no two stored issues of the same project have the same issue_key
C1_IssueKeyUniquePerProject ==
    \A i \in issues : \A j \in issues :
        (i.project_id = j.project_id /\ i.issue_key = j.issue_key) => i = j

\* two issues are stored in one project while a submission holding an already stored key
\* of that project is in flight
C1_Witness ==
    \E s \in Sessions :
        /\ issueDlg[s].pc = "insert"
        /\ issueDlg[s].issueKey \in KeysOf(issueDlg[s].projectId)
        /\ Cardinality(IssuesOf(issueDlg[s].projectId)) = 2

\* C2: of two submissions that computed the same key for the same project the first insert
\* succeeds and adds exactly the row with that key; an insert whose key is already stored
\* adds no row and ends in the error branch (error toast, dialog open, onSuccess not called)
InsertStep(s) == issueDlg[s].pc = "insert" /\ issueDlg'[s].pc = "idle"
Racing(s, t) ==
    /\ issueDlg[s].pc = "insert" /\ issueDlg[t].pc = "insert"
    /\ issueDlg[s].projectId = issueDlg[t].projectId
    /\ issueDlg[s].issueKey = issueDlg[t].issueKey
C2_RaceOneInsertWins ==
    [][\A s \in Sessions :
          InsertStep(s) =>
             LET p == issueDlg[s].projectId
                 key == issueDlg[s].issueKey
             IN  /\ (\E t \in Others(s) : Racing(s, t)) =>
                       /\ Cardinality(issues') = Cardinality(issues) + 1
                       /\ \E row \in issues' \ issues : row.project_id = p /\ row.issue_key = key
                       /\ outcome'[s].toast = "Success"
                       /\ \A t \in Others(s) : Racing(s, t) => issueDlg'[t].issueKey \in KeysOf(p)'
                 /\ key \in KeysOf(p) =>
                       /\ issues' = issues
                       /\ outcome'[s] = [toast |-> "Error", closed |-> FALSE, onSuccess |-> FALSE]]_vars

\* one of two racing submissions has inserted its row and was told so; the other still
\* holds the same key
C2_Witness ==
    \E s \in Sessions : \E t \in Others(s) :
        /\ issueDlg[t].pc = "insert"
        /\ issueDlg[t].issueKey \in KeysOf(issueDlg[t].projectId)
        /\ issueDlg[s].pc = "idle"
        /\ outcome[s].toast = "Success"
        /\ \E i \in IssuesOf(issueDlg[t].projectId) :
              i.issue_key = issueDlg[t].issueKey /\ i.reporter_id = authUser[s]

\* C3: generate_issue_key(p) returns key-(N+1), N the greatest number written after the
\* hyphen in the keys of the issues of p (0 without issues); 'Project not found' when no
\* project has id p; and the call changes no table row
C3_Expected(r) ==
    IF ~ \E p \in projects : p.id = r.arg
    THEN r.error = "Project not found"
    ELSE LET project == CHOOSE p \in projects : p.id = r.arg
             numbers == {NumericSuffix(k) : k \in KeysOf(r.arg)}
             N == IF numbers = {} THEN 0 ELSE SetMax(numbers)
         IN  /\ r.error = NULL
             /\ KeyPrefix(r.value) = project.key
             /\ NumericSuffix(r.value) = N + 1
C3_GenerateIssueKey ==
    [][genResult'.arg # 0 => (C3_Expected(genResult)' /\ dbVars' = dbVars)]_vars

\* a call for a project whose issue numbers have a gap and reach two digits
C3_Witness ==
    /\ genResult.arg # 0
    /\ genResult.error = NULL
    /\ Cardinality(IssuesOf(genResult.arg)) = 2
    /\ NumericSuffix(genResult.value) > 10

\* C4: the issues of a project carry the keys KEY-1 .. KEY-n, the k-th created one KEY-k
C4_SequentialKeys ==
    \A p \in projects : \A i \in IssuesOf(p.id) :
        /\ KeyPrefix(i.issue_key) = p.key
        /\ NumericSuffix(i.issue_key) = Cardinality({j \in IssuesOf(p.id) : j.id <= i.id})

\* a project holds two issues
C4_Witness == \E p \in projects : Cardinality(IssuesOf(p.id)) = 2

\* C5: no two projects of an organization share a key, and a submission whose upper-cased
\* key is already used in the dialog's organization adds no project and shows an error
C5_KeysUnique ==
    \A p \in projects : \A q \in projects : (p.org_id = q.org_id /\ p.key = q.key) => p = q
C5_ProjectKeyUniquePerOrg ==
    /\ C5_KeysUnique
    /\ [][/\ C5_KeysUnique'
          /\ \A s \in Sessions : \A key \in KeyInputs :
             (/\ \E p \in projects : p.org_id = projectDlg[s].orgId /\ p.key = toUpperCase(key)
              /\ CreateProjectSubmit(s, key))
             => (projects' = projects /\ outcome'[s].toast = "Error" /\ ~ outcome'[s].closed)]_vars

\* a manager or above sees an error while the organization of the dialog holds one project
\* whose key was typed in lower case, and nothing else was ever inserted
C5_Witness ==
    \E s \in Sessions :
        /\ outcome[s].toast = "Error"
        /\ projectDlg[s].orgId = "o1"
        /\ RolesOf(authUser[s], "o1") \cap {"owner", "admin", "manager"} # {}
        /\ \E p \in projects : projects = {p} /\ p.key = <<"W">>
        /\ RowCount = 1

C8_ExpiredInviteRejected ==
    [][\A s \in Sessions : \A token \in 1..MaxRows :
          (/\ \E i \in invites : i.token = token /\ i.expires_at < now
           /\ acceptInvite(s, token))
          => (/\ acceptPage'[s].status = "expired"
              /\ profiles' = profiles
              /\ user_roles' = user_roles
              /\ invites' = invites)]_vars

\* C9: a user reads a project, issue, invite or deployment row only if user_roles holds a
\* row for that user and the organization owning the row; this covers what the backend
\* returns to the user and the rows a session of the user holds
IsMember(u, o) == \E r \in user_roles : r.user_id = u /\ r.org_id = o
OrgOfProject(id) == (CHOOSE p \in projects : p.id = id).org_id
C9_VisibilityGatedByMembership ==
    /\ \A u \in Users :
          /\ \A p \in SelectProjects(u) : IsMember(u, p.org_id)
          /\ \A i \in SelectIssues(u) : IsMember(u, OrgOfProject(i.project_id))
          /\ \A i \in SelectInvites(u) : IsMember(u, i.org_id)
          /\ \A d \in SelectDeployments(u) : IsMember(u, OrgOfProject(d.project_id))
    /\ \A s \in Sessions :
          /\ \A p \in issueDlg[s].projects : IsMember(authUser[s], OrgOfProject(p.id))
          /\ acceptPage[s].invite # NoInvite => IsMember(authUser[s], acceptPage[s].invite.org_id)

\* a user without any membership opened an invitation link and their project list while
\* an organization holds a project, an invite and a deployment, and was shown none of them
C9_Witness ==
    \E s \in Sessions :
        /\ MemberOrgs(authUser[s]) = {}
        /\ projects # {} /\ invites # {} /\ deployments # {}
        /\ acceptPage[s].status = "error"
        /\ acceptPage[s].message = "Invitation not found or already accepted"
        /\ \E t \in Others(s) : issueDlg[t].projects # {}

\* C10: a project row or an invite row of organization o is inserted only by a user who
\* holds role owner, admin or manager for o; a submission by anyone else inserts nothing
\* and shows an error
CanManage(u, o) == RolesOf(u, o) \cap {"owner", "admin", "manager"} # {}
C10_InsertsByManagersOnly ==
    [][/\ \A p \in projects' \ projects :
             \E s \in Sessions : \E key \in KeyInputs :
                 CreateProjectSubmit(s, key) /\ CanManage(authUser[s], p.org_id)
       /\ \A i \in invites' \ invites :
             \E s \in Sessions : \E emails \in EmailLists : \E role \in InviteRoleInputs :
                 /\ CreateInviteSubmit(s, emails, role)
                 /\ i.created_by = authUser[s]
                 /\ CanManage(authUser[s], i.org_id)
       /\ \A s \in Sessions :
             /\ (projectDlg[s].orgId # NULL /\ ~ CanManage(authUser[s], projectDlg[s].orgId)) =>
                   \A key \in KeyInputs :
                       CreateProjectSubmit(s, key) =>
                           (projects' = projects /\ outcome'[s].toast = "Error")
             /\ (dashboard[s].orgId # NULL /\ ~ CanManage(authUser[s], dashboard[s].orgId)) =>
                   \A emails \in EmailLists : \A role \in InviteRoleInputs :
                       CreateInviteSubmit(s, emails, role) =>
                           (invites' = invites /\ outcome'[s].toast = "Error")]_vars

\* a manager has created an invite and a project exists, while the other session's user,
\* who may not manage the organization of its dialog, was shown an error
C10_Witness ==
    \E s \in Sessions : \E t \in Others(s) :
        /\ \E i \in invites : i.created_by = authUser[s] /\ RolesOf(authUser[s], i.org_id) = {"manager"}
        /\ projects # {}
        /\ projectDlg[t].orgId # NULL
        /\ ~ CanManage(authUser[t], projectDlg[t].orgId)
        /\ outcome[t].toast = "Error"

\* C11: a user_roles row of organization o is inserted only by a user who already holds role
\* owner or admin for o; the insert attempted by any other user is refused by the policy
\* and adds no row
IsAdmin(u, o) == RolesOf(u, o) \cap {"owner", "admin"} # {}
RoleStep(s) == acceptPage[s].pc = "role" /\ acceptPage'[s].pc = "idle"
C11_RolesInsertedByAdminsOnly ==
    [][/\ \A r \in user_roles' \ user_roles :
             \E s \in Sessions : RoleStep(s) /\ IsAdmin(authUser[s], r.org_id)
       /\ \A s \in Sessions :
             (RoleStep(s) /\ ~ IsAdmin(authUser[s], acceptPage[s].invite.org_id)) =>
                 /\ user_roles' = user_roles
                 /\ acceptPage'[s].status = "error"
                 /\ acceptPage'[s].message = "rls"]_vars

\* a member below admin accepted an invite to their organization and the insert of the
\* role row was refused by the policy
C11_Witness ==
    \E s \in Sessions :
        /\ acceptPage[s].status = "error"
        /\ acceptPage[s].message = "rls"
        /\ \E i \in invites : RolesOf(authUser[s], i.org_id) \cap {"manager", "contributor", "viewer"} # {}

\* C12: when a user whose e-mail equals an invite's e-mail (ignoring case) and who has no
\* role in the invite's organization opens the link of the unaccepted, unexpired invite,
\* acceptInvite ends with status 'success'
Eligible(s, token) ==
    \E i \in invites :
        /\ i.token = token
        /\ i.accepted_at = NullTime
        /\ ~ (i.expires_at < now)
        /\ toLowerCase(i.email) = toLowerCase(UserEmail(authUser[s]))
        /\ RolesOf(authUser[s], i.org_id) = {}
C12_EligibleAcceptSucceeds ==
    [][\A s \in Sessions :
          /\ \A token \in 1..MaxRows :
                (Eligible(s, token) /\ acceptInvite(s, token)) =>
                    acceptPage'[s].status \notin {"error", "expired"}
          /\ (RoleStep(s) /\ RolesOf(authUser[s], acceptPage[s].invite.org_id) = {}) =>
                acceptPage'[s].status = "success"]_vars

\* C14: a user whose role in an organization is viewer cannot create or update any issue,
\* sprint, project or invite of that organization: every such submission by a viewer is
\* rejected and changes no row
OrgIssues(o) == {i \in issues : OrgOfProject(i.project_id) = o}
OrgSprints(o) == {sp \in sprints : OrgOfProject(sp.project_id) = o}
OrgProjects(o) == {p \in projects : p.org_id = o}
OrgInvites(o) == {i \in invites : i.org_id = o}
Mutation(s) ==
    \/ \E type \in TypeInputs, priority \in PriorityInputs : insertIssue(s, type, priority)
    \/ \E field \in FieldInputs, value \in ValueInputs : updateIssueField(s, field, value)
    \/ \E type \in SprintTypeInputs : CreateSprintSubmit(s, type)
    \/ \E key \in KeyInputs : CreateProjectSubmit(s, key)
    \/ \E emails \in EmailLists, role \in InviteRoleInputs : CreateInviteSubmit(s, emails, role)
C14_ViewerReadOnly ==
    [][\A s \in Sessions : \A o \in OrgIds :
          ("viewer" \in RolesOf(authUser[s], o) /\ Mutation(s)) =>
              /\ OrgIssues(o)' = OrgIssues(o)
              /\ OrgSprints(o)' = OrgSprints(o)
              /\ OrgProjects(o)' = OrgProjects(o)
              /\ OrgInvites(o)' = OrgInvites(o)]_vars

\* C15: a sprint row of a project is inserted only by a user who holds role contributor,
\* manager, admin or owner in the project's organization; a submission by a viewer or a
\* non-member inserts nothing
CanContribute(u, o) == RolesOf(u, o) \cap {"contributor", "manager", "admin", "owner"} # {}
C15_SprintsByContributorsAndAbove ==
    [][/\ \A sp \in sprints' \ sprints : CanContribute(sp.created_by, OrgOfProject(sp.project_id))
       /\ \A s \in Sessions :
             (/\ sprintDlg[s].projectId # NoProject
              /\ ~ CanContribute(authUser[s], OrgOfProject(sprintDlg[s].projectId))
              /\ \E type \in SprintTypeInputs : CreateSprintSubmit(s, type))
             => sprints' = sprints]_vars

\* C16: an issue row is modified only by an update issued by its reporter or by one of its
\* assignees; an update attempted by any other user leaves the issue rows unchanged
UpdateStep(s) == \E field \in FieldInputs, value \in ValueInputs : updateIssueField(s, field, value)
MayUpdate(u, i) == i.reporter_id = u \/ u \in i.assignee_ids
C16_UpdatesByReporterOrAssignee ==
    [][/\ \A i \in issues :
             i \notin issues' =>
                 \E s \in Sessions :
                     UpdateStep(s) /\ issueSheet[s].issueId = i.id /\ MayUpdate(authUser[s], i)
       /\ \A s \in Sessions :
             (/\ \A i \in issues : i.id = issueSheet[s].issueId => ~ MayUpdate(authUser[s], i)
              /\ UpdateStep(s))
             => issues' = issues]_vars

\* a user who is neither reporter nor assignee of an issue has set its status in the
\* detail sheet, and the stored row still has the status it was created with
C16_Witness ==
    \E s \in Sessions : \E i \in issues :
        /\ i.id = issueSheet[s].issueId
        /\ ~ MayUpdate(authUser[s], i)
        /\ issueSheet[s].issue.status = "done"
        /\ i.status = "backlog"

\* C17: every stored issue has status, priority and type within their enumerations, and an
\* update carrying any other value is rejected with an error and leaves the rows unchanged
C17_AllInEnums ==
    \A i \in issues :
        /\ i.status \in {"backlog", "todo", "in_progress", "in_review", "blocked", "done"}
        /\ i.priority \in {"low", "medium", "high", "critical"}
        /\ i.type \in {"task", "bug", "story", "epic", "subtask", "spike"}
C17_InEnum(field, value) ==
    \/ field = "status" /\ value \in {"backlog", "todo", "in_progress", "in_review", "blocked", "done"}
    \/ field = "priority" /\ value \in {"low", "medium", "high", "critical"}
    \/ field = "type" /\ value \in {"task", "bug", "story", "epic", "subtask", "spike"}
C17_EnumsClosed ==
    /\ C17_AllInEnums
    /\ [][/\ C17_AllInEnums'
          /\ \A s \in Sessions : \A field \in FieldInputs : \A value \in ValueInputs :
                (~ C17_InEnum(field, value) /\ updateIssueField(s, field, value)) =>
                    (issues' = issues /\ outcome'[s].toast = "Error")]_vars

\* a user was shown an error by the detail sheet of a stored issue, the only component of
\* that session that has submitted anything
C17_Witness ==
    \E s \in Sessions : \E i \in issues :
        /\ i.id = issueSheet[s].issueId
        /\ issueSheet[s].issue = i
        /\ outcome[s].toast = "Error"
        /\ issueDlg[s].projectId = NoProject
        /\ sprintDlg[s].projectId = NoProject

\* C18: every backend call of a user action that returns an error leads to an error
\* notification or an error status: a load whose query returns an error shows the error
\* toast, and so does a submission that stores nothing
C18_ErrorsSurfaced ==
    [][\A s \in Sessions :
          /\ (~ ProfilesSelectPolicy(authUser[s], authUser[s]) /\ loadUserOrg(s)) =>
                outcome'[s].toast = "Error"
          /\ (organizations' = organizations /\ \E slug \in SlugInputs : CreateOrgSubmit(s, slug)) =>
                outcome'[s].toast = "Error"
          /\ (projects' = projects /\ \E key \in KeyInputs : CreateProjectSubmit(s, key)) =>
                outcome'[s].toast = "Error"
          /\ (issues' = issues /\ InsertStep(s)) =>
                outcome'[s].toast = "Error"
          /\ (sprints' = sprints /\ \E type \in SprintTypeInputs : CreateSprintSubmit(s, type)) =>
                outcome'[s].toast = "Error"
          /\ (invites' = invites
              /\ \E emails \in EmailLists, role \in InviteRoleInputs : CreateInviteSubmit(s, emails, role)) =>
                outcome'[s].toast = "Error"
          /\ (user_roles' = user_roles /\ RoleStep(s)) =>
                acceptPage'[s].status = "error"]_vars

\* "Nested subtasks (max 2 levels)"
MaxLevels == 2

\* the issue has a chain of at least n ancestors through parent_issue_id
RECURSIVE AncestorChain(_, _)
AncestorChain(id, n) ==
    \/ n = 0
    \/ \E i \in issues : /\ i.id = id
                         /\ i.parent_issue_id # NoParent
                         /\ AncestorChain(i.parent_issue_id, n - 1)

\* the ancestors of the issue within n steps
RECURSIVE Ancestors(_, _)
Ancestors(id, n) ==
    IF n = 0 THEN {}
    ELSE LET parents == {i.parent_issue_id : i \in {x \in issues : x.id = id}} \ {NoParent}
         IN  parents \cup UNION {Ancestors(p, n - 1) : p \in parents}

\* C19: no issue has a chain of more than two ancestors through parent_issue_id, and
\* no issue is its own ancestor
C19_SubtasksNestTwoLevels ==
    \A i \in issues : /\ ~ AncestorChain(i.id, MaxLevels + 1)
                      /\ i.id \notin Ancestors(i.id, Cardinality(issues))

\* C20: every project has a key of 2 to 5 characters, all upper-case
C20_KeyLength ==
    \A p \in projects : Len(p.key) \in 2..5 /\ p.key = toUpperCase(p.key)

\* C21: has_role(u, o, r) is true exactly when user_roles holds the row (u, o, r), and
\* exactly when get_user_role(u, o) = r; get_user_role(u, o) is null exactly when u has
\* no row for o; a call returns that value and changes no row
C21_Agree ==
    /\ \A u \in Users, o \in OrgIds :
          /\ \A r \in app_role :
                /\ has_role(u, o, r) <=> [user_id |-> u, org_id |-> o, role |-> r] \in user_roles
                /\ has_role(u, o, r) <=> get_user_role(u, o) = r
          /\ get_user_role(u, o) = NULL <=> ~ \E x \in user_roles : x.user_id = u /\ x.org_id = o
    /\ genResult.fn = "has_role" =>
          genResult.value = ([user_id |-> genResult.args[1], org_id |-> genResult.args[2],
                              role |-> genResult.args[3]] \in user_roles)
    /\ genResult.fn = "get_user_role" =>
          \/ [user_id |-> genResult.args[1], org_id |-> genResult.args[2],
              role |-> genResult.value] \in user_roles
          \/ /\ genResult.value = NULL
             /\ ~ \E x \in user_roles : x.user_id = genResult.args[1] /\ x.org_id = genResult.args[2]

C21_RolesAgree == C21_Agree /\ [][C21_Agree' /\ dbVars' = dbVars]_vars

\* get_user_role has returned the role of a user who holds different roles in the two
\* organizations, and has_role has confirmed a role
C21_Witness ==
    /\ genResult.fn = "get_user_role"
    /\ genResult.args = <<"u2", "o1">>
    /\ genResult.value = "viewer"
    /\ has_role("u2", "o2", "owner")

\* the token is that of an invite sent to an email that differs, ignoring letter case,
\* from the email of the user of the session
OtherEmail(s, token) ==
    \E i \in invites : /\ i.token = token
                       /\ toLowerCase(i.email) # toLowerCase(UserEmail(SessionUser(s)))

\* C22 as stated: an attempt on an invite sent to a different email ends with status
\* 'error' and changes no row
C22_OtherEmailEndsError ==
    [][\A s \in Sessions, token \in 1..MaxRows :
          (acceptPage[s].pc = "idle" /\ OtherEmail(s, token) /\ acceptInvite(s, token)) =>
              /\ acceptPage'[s].pc = "idle"
              /\ acceptPage'[s].status = "error"
              /\ dbVars' = dbVars]_vars

\* C22: an attempt on an invite sent to a different email ends with status 'error', or
\* with 'expired' when the invite has expired, and changes no row
C22_OtherEmailRejected ==
    [][\A s \in Sessions, token \in 1..MaxRows :
          (acceptPage[s].pc = "idle" /\ OtherEmail(s, token) /\ acceptInvite(s, token)) =>
              /\ acceptPage'[s].pc = "idle"
              /\ acceptPage'[s].status \in {"error", "expired"}
              /\ acceptPage'[s].status = "expired" =>
                    \E i \in invites : i.token = token /\ i.expires_at < now
              /\ dbVars' = dbVars]_vars

\* a member who can read the invite has opened the link of an invite sent to another email
C22_Witness ==
    \E s \in Sessions :
        /\ acceptPage[s].status = "error"
        /\ acceptPage[s].message = "This invitation was sent to a different email address"
        /\ \E i \in SelectInvites(SessionUser(s)) :
              toLowerCase(i.email) # toLowerCase(UserEmail(SessionUser(s)))

\* C23: whenever updateIssueField(field, value) shows 'Updated' and sets the field of the
\* displayed issue to value, the stored issue row has field = value; when the backend
\* returns an error, the displayed issue is unchanged and onUpdate is not called
C23_SheetMatchesStorage ==
    [][\A s \in Sessions, field \in FieldInputs, value \in ValueInputs :
          (issueSheet[s].issueId # 0 /\ updateIssueField(s, field, value)) =>
              /\ (outcome'[s].toast = "Updated" /\ issueSheet'[s].issue[field] = value) =>
                    \E i \in issues' : i.id = issueSheet[s].issueId /\ i[field] = value
              /\ outcome'[s].toast = "Error" =>
                    issueSheet'[s] = issueSheet[s] /\ ~ outcome'[s].onSuccess]_vars

\* C24: whenever acceptInvite ends with status 'error' or 'expired', the user's
\* profiles.org_id, the user_roles rows and the invite's accepted_at / accepted_by are
\* what they were when the attempt started
C24_AllOrNothing ==
    [][\A s \in Sessions :
          /\ (acceptPage[s].pc = "idle" /\ \E token \in 1..MaxRows : acceptInvite(s, token)) =>
                (acceptPage'[s].status \in {"error", "expired"} => dbVars' = dbVars)
          /\ (RoleStep(s) /\ acceptPage'[s].status \in {"error", "expired"}) =>
                /\ profiles'[SessionUser(s)].org_id = acceptPage[s].orgBefore
                /\ user_roles' = user_roles
                /\ invites' = invites]_vars

====
